---- MODULE Spec2Model ----
(***************************************************************************)
(* Parent-branch inference of git-branch-commits (main.ts,                 *)
(* findParentBranch).  Text is a sequence of one-character strings, so     *)
(* that trim, split, replace and parseInt are computed, not assumed.  Each *)
(* action is one awaited git command together with the synchronous code    *)
(* that follows it up to the next await or return.                         *)
(***************************************************************************)
EXTENDS Integers, Sequences, FiniteSets, TLC

\* ------------------------------------------------------------------ bounds
\* Number of distinct local branch names a scripted git may print.
NumBranches == 4

\* ------------------------------------------------------------------- text
NL == "\n"

\* Branch names, in the order of their refnames.
BranchPool == << <<"d">>, <<"f">>, <<"m">>, <<"r">>, <<"s">>, <<"t">> >>

BranchNames == {BranchPool[k] : k \in 1..NumBranches}

\* The branch that is checked out when findParentBranch is called.
CurrentBranches == {BranchPool[1], BranchPool[2]}

IsSpace(ch) == ch \in {" ", NL}

RECURSIVE trimStart(_)
trimStart(s) ==
  IF s = <<>> THEN s
  ELSE IF IsSpace(Head(s)) THEN trimStart(Tail(s)) ELSE s

RECURSIVE trimEnd(_)
trimEnd(s) ==
  IF s = <<>> THEN s
  ELSE IF IsSpace(s[Len(s)]) THEN trimEnd(SubSeq(s, 1, Len(s) - 1)) ELSE s

\* String.prototype.trim
trim(s) == trimEnd(trimStart(s))

\* Index of the first occurrence of ch in s, 0 when there is none.
indexOf(s, ch) ==
  IF \E k \in 1..Len(s) : s[k] = ch
  THEN CHOOSE k \in 1..Len(s) : s[k] = ch /\ \A j \in 1..(k - 1) : s[j] # ch
  ELSE 0

\* String.prototype.split("\n")
RECURSIVE split(_)
split(s) ==
  LET k == indexOf(s, NL)
  IN IF k = 0 THEN << s >>
     ELSE << SubSeq(s, 1, k - 1) >> \o split(SubSeq(s, k + 1, Len(s)))

\* String.prototype.replace("*", ""): only the first occurrence is removed.
replace(s) ==
  LET k == indexOf(s, "*")
  IN IF k = 0 THEN s ELSE SubSeq(s, 1, k - 1) \o SubSeq(s, k + 1, Len(s))

\* ---------------------------------------------------------------- parseInt
Digits == << "0", "1", "2", "3", "4", "5", "6", "7", "8", "9" >>

IsDigit(ch) == \E d \in 1..10 : Digits[d] = ch

DigitVal(ch) == (CHOOSE d \in 1..10 : Digits[d] = ch) - 1

NaN == [nan |-> TRUE, n |-> 0]

Num(n) == [nan |-> FALSE, n |-> n]

RECURSIVE digitsPrefix(_, _)
digitsPrefix(s, acc) ==
  IF s = <<>> \/ ~IsDigit(Head(s)) THEN acc
  ELSE digitsPrefix(Tail(s), 10 * acc + DigitVal(Head(s)))

\* parseInt(text): leading white space and one sign are skipped, the longest
\* prefix of decimal digits is the value, and no digit at all gives NaN.
\* (A "0x" prefix, read as hexadecimal, occurs in none of the texts drawn
\* here.)
parseInt(s) ==
  LET t == trimStart(s)
      neg == t # <<>> /\ Head(t) = "-"
      u == IF t # <<>> /\ Head(t) \in {"-", "+"} THEN Tail(t) ELSE t
  IN IF u = <<>> \/ ~IsDigit(Head(u)) THEN NaN
     ELSE Num(IF neg THEN 0 - digitsPrefix(u, 0) ELSE digitsPrefix(u, 0))

\* count < minCommits and count > 0 on a JavaScript number: false for NaN.
Lt(count, m) == ~count.nan /\ count.n < m

Gt(count, m) == ~count.nan /\ count.n > m

\* ------------------------------------------------------- nullable strings
Null == [isNull |-> TRUE, s |-> <<>>]

Str(s) == [isNull |-> FALSE, s |-> s]

\* JavaScript truthiness of a string: the empty string is falsy.
truthyText(s) == s # <<>>

\* JavaScript truthiness of string | null.
truthy(v) == ~v.isNull /\ truthyText(v.s)

\* ------------------------------------------------------------ the git side
\* What the git process prints and how it exits; thrown is the message of
\* the error raised when the process could not be run at all.
Exit(code, stdout, stderr) ==
  [thrown |-> <<>>, code |-> code, stdout |-> stdout, stderr |-> stderr]

\* runGitCommand: success is exit code 0, the output is trimmed stdout, or
\* trimmed stderr (stdout when stderr is empty) on failure; an error raised
\* by the launch is caught and gives a failure with its message.
runGitCommand(p) ==
  LET output == trim(p.stdout)
      error == trim(p.stderr)
  IN IF p.thrown # <<>>
     THEN [success |-> FALSE, output |-> p.thrown]
     ELSE IF p.code # 0
     THEN [success |-> FALSE, output |-> IF error # <<>> THEN error ELSE output]
     ELSE [success |-> TRUE, output |-> output]

\* git exits with an error / git cannot be launched.
Fatal == Exit(128, <<>>, <<"f", "a", "t", "a", "l">> \o << NL >>)

NotLaunched ==
  [thrown |-> <<"E", "N", "O", "E", "N", "T">>, code |-> 0, stdout |-> <<>>,
   stderr |-> <<>>]

Failed == {Fatal, NotLaunched}

\* What a listing command can enumerate: any set of branches, each once,
\* sorted by refname as git sorts them.
Listings ==
  {SelectSeq(SubSeq(BranchPool, 1, NumBranches), LAMBDA b : b \in T) :
     T \in SUBSET BranchNames}

RECURSIVE unlines(_)
unlines(ls) == IF ls = <<>> THEN <<>> ELSE Head(ls) \o << NL >> \o unlines(Tail(ls))

\* git rev-parse --abbrev-ref --symbolic-full-name @{u}
UpstreamName == <<"o", "/", "m">>

UpstreamExits ==
  Failed \cup {Exit(0, UpstreamName \o << NL >>, <<>>), Exit(0, << NL >>, <<>>)}

\* git rev-parse HEAD^
HeadExits == Failed \cup {Exit(0, <<"a", "1">> \o << NL >>, <<>>)}

\* git branch --contains <commit>: "* name" for the checked-out branch and
\* "  name" for every other one.
branchLine(b, cur) == (IF b = cur THEN <<"*", " ">> ELSE <<" ", " ">>) \o b

ContainsExits(cur) ==
  Failed \cup
  {Exit(0, unlines([k \in 1..Len(q) |-> branchLine(q[k], cur)]), <<>>) :
     q \in Listings}

\* git for-each-ref --format=%(refname:short) refs/heads/
ForEachRefExits ==
  Failed \cup {Exit(0, unlines(q), <<>>) : q \in Listings}

\* git rev-list --count <branch>..<currentBranch>
CountTexts ==
  { <<"0">>, <<"1">>, <<"2">>, <<"9", "9", "9", "9", "9", "9">>,
    <<"x">>, <<"1", "x">> }

\* Line 102 reads only the success of a failed count query, so one kind of
\* failure is drawn here.
CountExits == {Fatal} \cup {Exit(0, t \o << NL >>, <<>>) : t \in CountTexts}

\* ---------------------------------------------------------- the resolver
VARIABLES
  pc,                  \* where findParentBranch stands
  currentBranch,       \* its argument
  upstream,            \* line 59
  firstParentResult,   \* line 66
  containingResult,    \* line 73
  containingBranches,  \* line 82
  branchesResult,      \* line 117
  branches,            \* line 126
  idx,                 \* position of the running for-of loop
  bestBranch,          \* lines 93 and 130
  minCommits,          \* lines 94 and 131
  countResults,        \* the countResult of every iteration of the running loop
  issued,              \* the git commands run so far, in order
  via,                 \* the return statement that was taken
  result               \* the returned value

vars == << pc, currentBranch, upstream, firstParentResult, containingResult,
           containingBranches, branchesResult, branches, idx, bestBranch,
           minCommits, countResults, issued, via, result >>

NoResult == [success |-> FALSE, output |-> <<>>]

minCommitsInit == 999999

Init ==
  /\ pc = "upstream"
  /\ currentBranch \in CurrentBranches
  /\ upstream = Null
  /\ firstParentResult = NoResult
  /\ containingResult = NoResult
  /\ containingBranches = <<>>
  /\ branchesResult = NoResult
  /\ branches = <<>>
  /\ idx = 0
  /\ bestBranch = <<>>
  /\ minCommits = minCommitsInit
  /\ countResults = <<>>
  /\ issued = <<>>
  /\ via = "none"
  /\ result = Null

\* return v
Return(v, line) ==
  /\ pc' = "done"
  /\ result' = v
  /\ via' = line

\* getUpstreamBranch
getUpstreamBranch(r) == IF r.success THEN Str(r.output) ELSE Null

\* The test of line 60 negated.
Method1Returns_negated(u) == ~truthy(u)

\* if (upstream)
Method1Returns(u) == truthy(u)

\* Lines 59-62.
Method1 ==
  /\ pc = "upstream"
  /\ \E p \in UpstreamExits :
       LET u == getUpstreamBranch(runGitCommand(p))
       IN /\ upstream' = u
          /\ issued' = Append(issued, "upstream")
          /\ IF Method1Returns(u)
             THEN Return(u, "upstream")
             ELSE /\ pc' = "firstParent"
                  /\ UNCHANGED << result, via >>
  /\ UNCHANGED << currentBranch, firstParentResult, containingResult,
                  containingBranches, branchesResult, branches, idx,
                  bestBranch, minCommits, countResults >>

\* Lines 66-70.
FirstParent ==
  /\ pc = "firstParent"
  /\ \E p \in HeadExits :
       LET r == runGitCommand(p)
       IN /\ firstParentResult' = r
          /\ issued' = Append(issued, "firstParent")
          /\ IF ~r.success
             THEN Return(Null, "firstParentFailed")
             ELSE /\ pc' = "containing"
                  /\ UNCHANGED << result, via >>
  /\ UNCHANGED << currentBranch, upstream, containingResult,
                  containingBranches, branchesResult, branches, idx,
                  bestBranch, minCommits, countResults >>

\* (line) => line.replace("*", "").trim()
stripLine(line) == trim(replace(line))

\* The filter of lines 85 and 128 without the test against currentBranch.
keepBranch_any(branch, cur) == truthyText(branch)

\* (branch) => branch && branch !== currentBranch
keepBranch(branch, cur) == truthyText(branch) /\ branch # cur

\* Lines 82-85.
containingBranchesOf(output, cur) ==
  LET lines == split(output)
      stripped == [k \in 1..Len(lines) |-> stripLine(lines[k])]
  IN SelectSeq(stripped, LAMBDA b : keepBranch(b, cur))

\* The test of line 87 with the wrong comparison.
singleCandidate_greater(cb) == Len(cb) > 1

\* containingBranches.length === 1
singleCandidate(cb) == Len(cb) = 1

\* containingBranches.length > 1
severalCandidates(cb) == Len(cb) > 1

\* Lines 73-94: the query, the candidates, and the way on from them.
Containing ==
  /\ pc = "containing"
  /\ \E p \in ContainsExits(currentBranch) :
       LET r == runGitCommand(p)
           cb == containingBranchesOf(r.output, currentBranch)
       IN /\ containingResult' = r
          /\ issued' = Append(issued, "containing")
          /\ IF ~r.success
             THEN /\ Return(Null, "containingFailed")
                  /\ UNCHANGED << containingBranches, idx, bestBranch,
                                  minCommits, countResults >>
             ELSE /\ containingBranches' = cb
                  /\ IF singleCandidate(cb)
                     THEN /\ Return(Str(cb[1]), "single")
                          /\ UNCHANGED << idx, bestBranch, minCommits,
                                          countResults >>
                     ELSE IF severalCandidates(cb)
                     THEN /\ pc' = "count2"
                          /\ idx' = 1
                          /\ bestBranch' = <<>>
                          /\ minCommits' = minCommitsInit
                          /\ countResults' = <<>>
                          /\ UNCHANGED << result, via >>
                     ELSE /\ pc' = "forEachRef"
                          /\ UNCHANGED << result, via, idx, bestBranch,
                                          minCommits, countResults >>
  /\ UNCHANGED << currentBranch, upstream, firstParentResult, branchesResult,
                  branches >>

\* The test of line 104 written as !(count >= minCommits), which NaN passes.
select2_notGe(count, m) == count.nan \/ ~(count.n >= m)

\* if (count < minCommits)
select2(count, m) == Lt(count, m)

\* The test of line 141 with count >= 0.
select3_zero(count, m) == ~count.nan /\ count.n >= 0 /\ Lt(count, m)

\* if (count > 0 && count < minCommits)
select3(count, m) == Gt(count, 0) /\ Lt(count, m)

\* One iteration of the loop of lines 96-109 on the pair (bestBranch,
\* minCommits).
step2(acc, branch, countResult) ==
  LET count == parseInt(countResult.output)
  IN IF countResult.success /\ select2(count, acc.minCommits)
     THEN [bestBranch |-> branch, minCommits |-> count.n]
     ELSE acc

\* One iteration of the loop of lines 133-146.
step3(acc, branch, countResult) ==
  LET count == parseInt(countResult.output)
  IN IF countResult.success /\ select3(count, acc.minCommits)
     THEN [bestBranch |-> branch, minCommits |-> count.n]
     ELSE acc

\* The pair (bestBranch, minCommits) of lines 93-94 and 130-131.
acc0 == [bestBranch |-> <<>>, minCommits |-> minCommitsInit]

\* The loop of lines 96-109 run over branches and the answers to their count
\* queries.
RECURSIVE loop2(_, _)
loop2(pairs, acc) ==
  IF pairs = <<>> THEN acc
  ELSE loop2(Tail(pairs), step2(acc, Head(pairs).branch, Head(pairs).countResult))

\* The loop of lines 133-146.
RECURSIVE loop3(_, _)
loop3(pairs, acc) ==
  IF pairs = <<>> THEN acc
  ELSE loop3(Tail(pairs), step3(acc, Head(pairs).branch, Head(pairs).countResult))

\* bestBranch || null
orNull(s) == IF truthyText(s) THEN Str(s) ELSE Null

\* Lines 96-114: one count query of method 2 and, after the last one, the
\* return of the best branch or the way on to method 3.
Count2 ==
  /\ pc = "count2"
  /\ idx \in 1..Len(containingBranches)
  /\ \E p \in CountExits :
       LET branch == containingBranches[idx]
           r == runGitCommand(p)
           acc == step2([bestBranch |-> bestBranch, minCommits |-> minCommits],
                        branch, r)
       IN /\ issued' = Append(issued, "count")
          /\ countResults' = Append(countResults, r)
          /\ bestBranch' = acc.bestBranch
          /\ minCommits' = acc.minCommits
          /\ IF idx < Len(containingBranches)
             THEN /\ idx' = idx + 1
                  /\ UNCHANGED << pc, result, via >>
             ELSE /\ UNCHANGED idx
                  /\ IF truthyText(acc.bestBranch)
                     THEN Return(Str(acc.bestBranch), "fewest")
                     ELSE /\ pc' = "forEachRef"
                          /\ UNCHANGED << result, via >>
  /\ UNCHANGED << currentBranch, upstream, firstParentResult, containingResult,
                  containingBranches, branchesResult, branches >>

\* Lines 126-128.
branchesOf(output, cur) ==
  SelectSeq(split(output), LAMBDA b : keepBranch(b, cur))

\* Lines 117-131, and line 148 when there is no branch to loop over.
ForEachRef ==
  /\ pc = "forEachRef"
  /\ \E p \in ForEachRefExits :
       LET r == runGitCommand(p)
           bs == branchesOf(r.output, currentBranch)
       IN /\ branchesResult' = r
          /\ issued' = Append(issued, "forEachRef")
          /\ IF ~r.success
             THEN /\ Return(Null, "forEachRefFailed")
                  /\ UNCHANGED << branches, idx, bestBranch, minCommits,
                                  countResults >>
             ELSE /\ branches' = bs
                  /\ bestBranch' = <<>>
                  /\ minCommits' = minCommitsInit
                  /\ countResults' = <<>>
                  /\ IF bs = <<>>
                     THEN /\ Return(orNull(<<>>), "fallback")
                          /\ UNCHANGED idx
                     ELSE /\ pc' = "count3"
                          /\ idx' = 1
                          /\ UNCHANGED << result, via >>
  /\ UNCHANGED << currentBranch, upstream, firstParentResult, containingResult,
                  containingBranches >>

\* Lines 133-148: one count query of method 3 and, after the last one, the
\* return.
Count3 ==
  /\ pc = "count3"
  /\ idx \in 1..Len(branches)
  /\ \E p \in CountExits :
       LET branch == branches[idx]
           r == runGitCommand(p)
           acc == step3([bestBranch |-> bestBranch, minCommits |-> minCommits],
                        branch, r)
       IN /\ issued' = Append(issued, "count")
          /\ countResults' = Append(countResults, r)
          /\ bestBranch' = acc.bestBranch
          /\ minCommits' = acc.minCommits
          /\ IF idx < Len(branches)
             THEN /\ idx' = idx + 1
                  /\ UNCHANGED << pc, result, via >>
             ELSE /\ UNCHANGED idx
                  /\ Return(orNull(acc.bestBranch), "fallback")
  /\ UNCHANGED << currentBranch, upstream, firstParentResult, containingResult,
                  containingBranches, branchesResult, branches >>

Next == Method1 \/ FirstParent \/ Containing \/ Count2 \/ ForEachRef \/ Count3

Spec == Init /\ [][Next]_vars

\* ------------------------------------------------------------ properties
Issued(name) == \E k \in 1..Len(issued) : issued[k] = name

\* The upstream query failed (getUpstreamBranch gave null).
UpstreamFailed == Issued("upstream") /\ upstream.isNull

\* rev-parse HEAD^ was run and failed / resolved.
FirstParentFailed == Issued("firstParent") /\ ~firstParentResult.success

FirstParentResolved == Issued("firstParent") /\ firstParentResult.success

\* branch --contains was run and failed / succeeded.
ContainingFailed == Issued("containing") /\ ~containingResult.success

ContainingListed == Issued("containing") /\ containingResult.success

\* C1 as stated: whenever the upstream query succeeded, with whatever output
\* U, findParentBranch has returned U and the upstream query is the only
\* command that was run.
C1_AnyOutput ==
  (Issued("upstream") /\ ~upstream.isNull) =>
    /\ pc = "done"
    /\ result = upstream
    /\ issued = << "upstream" >>

\* C1 amended: whenever the upstream query succeeded with a non-empty output
\* U, findParentBranch has returned U and the upstream query is the only
\* command that was run.
C1_UpstreamPrecedence ==
  (Issued("upstream") /\ ~upstream.isNull /\ upstream.s # <<>>) =>
    /\ pc = "done"
    /\ result = Str(upstream.s)
    /\ issued = << "upstream" >>

C1_Witness ==
  /\ pc = "done"
  /\ result = Str(UpstreamName)
  /\ issued = << "upstream" >>

\* C2: once findParentBranch has returned after a failed upstream query and
\* a failed HEAD^ query, the all-local-branches enumeration of method 3 has
\* been run.
C2_RootCommitReachesMethod3 ==
  (pc = "done" /\ UpstreamFailed /\ FirstParentFailed) => Issued("forEachRef")

\* C3: once findParentBranch has returned after a failed upstream query, a
\* resolved HEAD^ and a failed branch --contains query, the enumeration of
\* method 3 has been run.
C3_ContainingFailureReachesMethod3 ==
  (pc = "done" /\ UpstreamFailed /\ FirstParentResolved /\ ContainingFailed)
    => Issued("forEachRef")

\* C4: when the upstream query failed, HEAD^ resolved and exactly one
\* candidate B is left of the branch --contains output, findParentBranch has
\* returned B having run neither a count query nor the enumeration of
\* method 3.
C4_SingleCandidate ==
  (/\ UpstreamFailed
   /\ FirstParentResolved
   /\ ContainingListed
   /\ Len(containingBranches) = 1) =>
    /\ pc = "done"
    /\ result = Str(containingBranches[1])
    /\ issued = << "upstream", "firstParent", "containing" >>

C4_Witness ==
  /\ pc = "done"
  /\ via = "single"
  /\ UpstreamFailed
  /\ Len(split(containingResult.output)) = 2
  /\ result = Str(BranchPool[3])

\* ------------------------------------------------- the two counting loops
\* The branches of a loop paired with the answers received so far.
Pairs(bs, rs) == [k \in 1..Len(rs) |-> [branch |-> bs[k], countResult |-> rs[k]]]

\* Method 3 has its branch list: from then on bestBranch, minCommits and
\* countResults are those of the loop of method 3.
Method3Listed == Issued("forEachRef") /\ branchesResult.success

\* The loop of method 2 is running or over, and its answers are in
\* countResults.
InLoop2 == ContainingListed /\ Len(containingBranches) > 1 /\ ~Method3Listed

Loop2Over == InLoop2 /\ Len(countResults) = Len(containingBranches)

\* The loop of method 3 is running or over.
InLoop3 == Method3Listed /\ branches # <<>>

Loop3Over == Method3Listed /\ pc = "done"

\* A count query that exited 0 and printed a decimal number.
IsNumber(text) == text # <<>> /\ \A k \in 1..Len(text) : IsDigit(text[k])

Counted(r) == r.success /\ IsNumber(r.output)

ValueOf(r) == digitsPrefix(r.output, 0)

\* A count query that exited 0 and printed what does not parse as a number.
Malformed(r) == r.success /\ parseInt(r.output).nan

\* The count parseInt reads from an answer that exited 0 and parses.
Parsed(r) == r.success /\ ~parseInt(r.output).nan

\* The first position holding the least value of v over the positions K.
FirstLeast(K, v) ==
  CHOOSE k \in K : /\ \A j \in K : v[k] <= v[j]
                   /\ \A j \in K : j < k => v[j] > v[k]

\* C5: when the loop of method 2 is over and every count query exited 0 with
\* a number, findParentBranch has returned the candidate with the least
\* count, the first enumerated one among equals; 0 is eligible.
C5_FewestOfCandidates ==
  (/\ UpstreamFailed
   /\ Loop2Over
   /\ \A k \in 1..Len(countResults) : Counted(countResults[k])) =>
    /\ pc = "done"
    /\ result = Str(containingBranches[
                  FirstLeast(1..Len(countResults),
                             [k \in 1..Len(countResults) |->
                                ValueOf(countResults[k])])])

\* The same with every count below the initial minCommits: this holds, so
\* the initial value alone stands between the code and C5.
C5_BelowInitial ==
  (\A k \in 1..Len(countResults) :
     Counted(countResults[k]) => ValueOf(countResults[k]) < minCommitsInit)
    => C5_FewestOfCandidates

\* C6: when method 3 has returned, the result is the first enumerated branch
\* among those with the least strictly positive count, and NotFound when no
\* branch has a strictly positive count (a count of 0 is never selected).
C6_Positive ==
  {k \in 1..Len(countResults) :
     Parsed(countResults[k]) /\ parseInt(countResults[k].output).n > 0}

C6_LeastPositive ==
  (Loop3Over /\ via = "fallback") =>
    result = IF C6_Positive = {} THEN Null
             ELSE Str(branches[
                    FirstLeast(C6_Positive,
                               [k \in C6_Positive |->
                                  parseInt(countResults[k].output).n])])

\* The same with every count below the initial minCommits: this holds.
C6_BelowInitial ==
  (\A k \in 1..Len(countResults) :
     Parsed(countResults[k]) =>
       parseInt(countResults[k].output).n < minCommitsInit)
    => C6_LeastPositive

\* C7: findParentBranch returns NotFound whenever the upstream query failed,
\* method 2 returned nothing and method 3 met no branch with a strictly
\* positive count (method 3 not reached, its list empty or failed included).
C7_Method3Counts == IF Method3Listed THEN countResults ELSE <<>>

C7_NotFound ==
  (/\ pc = "done"
   /\ UpstreamFailed
   /\ via \notin {"single", "fewest"}
   /\ \A k \in 1..Len(C7_Method3Counts) :
        ~(/\ Parsed(C7_Method3Counts[k])
          /\ parseInt(C7_Method3Counts[k].output).n > 0)) =>
    result = Null

C7_Witness ==
  /\ pc = "done"
  /\ UpstreamFailed
  /\ via = "fallback"
  /\ Len(countResults) >= 2
  /\ \E k \in 1..Len(countResults) : countResults[k].output = <<"0">>
  /\ result = Null

\* C8: in both loops a candidate whose count query exited 0 with output that
\* does not parse is skipped: bestBranch and minCommits are what the loop
\* gives on the list without such candidates, and a returned branch has an
\* answer that parses.
C8_WellFormed(pairs) == SelectSeq(pairs, LAMBDA q : ~Malformed(q.countResult))

C9_OneCountSuffices ==
  /\ (/\ UpstreamFailed
      /\ Loop2Over
      /\ \E k \in 1..Len(countResults) : Counted(countResults[k])) =>
       /\ pc = "done"
       /\ ~Issued("forEachRef")
       /\ \E k \in 1..Len(containingBranches) :
            result = Str(containingBranches[k])
  /\ (ContainingListed /\ containingBranches = <<>>) =>
       (pc = "forEachRef" \/ Issued("forEachRef"))

\* The same for a count query that exited 0 with a number below the initial
\* minCommits: this holds.
C9_BelowInitial ==
  (/\ UpstreamFailed
   /\ Loop2Over
   /\ \E k \in 1..Len(countResults) :
        /\ Counted(countResults[k])
        /\ ValueOf(countResults[k]) < minCommitsInit) =>
    /\ pc = "done"
    /\ ~Issued("forEachRef")
    /\ \E k \in 1..Len(containingBranches) :
         result = Str(containingBranches[k])

\* C10: when the upstream query failed, a returned branch is a non-empty
\* name other than currentBranch, and it is one of the branches printed by
\* the query it comes from: branch --contains for method 2, for-each-ref for
\* method 3.
C10_Printed(b, output) ==
  LET lines == split(output)
  IN \E k \in 1..Len(lines) :
       lines[k] \in {b, <<" ", " ">> \o b, <<"*", " ">> \o b}

C10_NeverInvented ==
  (pc = "done" /\ UpstreamFailed /\ ~result.isNull) =>
    /\ result.s # <<>>
    /\ result.s # currentBranch
    /\ via \in {"single", "fewest"} => C10_Printed(result.s, containingResult.output)
    /\ via = "fallback" => C10_Printed(result.s, branchesResult.output)
    /\ via \in {"single", "fewest", "fallback"}

C10_Witness ==
  /\ pc = "done"
  /\ UpstreamFailed
  /\ via = "fallback"
  /\ ~result.isNull
  /\ C10_Printed(currentBranch, branchesResult.output)
  /\ Len(branches) >= 2
====
